---- MODULE Spec2Model ----
(***************************************************************************)
(* Model of scripts/update_data.py: the monthly population updater.       *)
(*                                                                         *)
(* Strings are sequences of one-character strings, compared as Python      *)
(* compares str values (code point by code point, a proper prefix first).  *)
(* Dates are records [year, month, day]; None and a raised ValueError are  *)
(* two records no date equals.  The region names are written without the   *)
(* umlaut (their order is decided by the first letter, J < N).             *)
(***************************************************************************)
EXTENDS Integers, Sequences, FiniteSets, TLC

VARIABLES
    file,       \* DATA_FILE: [state: "missing" | "empty" | "json", rows: Seq(row)]
    pc,         \* where the current process is
    today,      \* dt.date.today() of the current run
    rows,       \* main: rows
    seen,       \* main: seen
    latest,     \* main: latest
    end,        \* main: end
    months,     \* main: months
    new_rows,   \* main: new_rows
    added,      \* main: added
    status,     \* HTTP status of the answer to this run's request, 0 before it
    exit_code,  \* exit status of the run: 0, 1 (uncaught exception), -1 running
    requests,   \* the month lists of the requests this run has issued
    writes,     \* how many times this run has written DATA_FILE
    file0,      \* DATA_FILE as it was when the run started
    arg,        \* argument of the function under check (function-level specs)
    ret         \* its result

vars == <<file, pc, today, rows, seen, latest, end, months, new_rows, added,
          status, exit_code, requests, writes, file0, arg, ret>>

run_vars == <<file, today, rows, seen, latest, end, months, new_rows, added,
              status, exit_code, requests, writes, file0>>

-----------------------------------------------------------------------------
(* Strings *)

DigitChars == <<"0", "1", "2", "3", "4", "5", "6", "7", "8", "9">>

DigitSet == {DigitChars[i] : i \in 1..10}

IsDigit(c) == c \in DigitSet

DigitTable == [c \in DigitSet |-> (CHOOSE i \in 1..10 : DigitChars[i] = c) - 1]

DigitVal(c) == DigitTable[c]

\* ord(c) for the characters the model uses
OrdTable ==
    [c \in DigitSet |-> 48 + DigitTable[c]]
    @@ ("\n" :> 10) @@ ("-" :> 45) @@ ("J" :> 74) @@ ("M" :> 77) @@ ("N" :> 78)
    @@ ("g" :> 103) @@ ("i" :> 105) @@ ("k" :> 107) @@ ("n" :> 110)
    @@ ("o" :> 111) @@ ("p" :> 112) @@ ("r" :> 114)

Ord(c) == OrdTable[c]

\* Python's a <= b on str: the first position where they differ decides, and
\* a proper prefix is smaller
RECURSIVE StrLEFrom(_, _, _)
StrLEFrom(a, b, k) ==
    IF k > Len(a) THEN TRUE
    ELSE IF k > Len(b) THEN FALSE
    ELSE IF a[k] = b[k] THEN StrLEFrom(a, b, k + 1)
    ELSE Ord(a[k]) < Ord(b[k])

StrLE(a, b) == StrLEFrom(a, b, 1)

StrLT(a, b) == StrLE(a, b) /\ a # b

\* int(s) for a string of decimal digits
RECURSIVE int(_)
int(s) ==
    IF s = <<>> THEN 0
    ELSE 10 * int(SubSeq(s, 1, Len(s) - 1)) + DigitVal(s[Len(s)])

\* str(n) for n >= 0: no padding
RECURSIVE str(_)
str(n) ==
    IF n < 10 THEN <<DigitChars[n + 1]>>
    ELSE str(n \div 10) \o <<DigitChars[(n % 10) + 1]>>

\* format(n, "02d") for n >= 0
Format02d(n) == IF n < 10 THEN <<"0">> \o str(n) ELSE str(n)

-----------------------------------------------------------------------------
(* Dates *)

None == [year |-> 0, month |-> 0, day |-> 0]

ValueError == [year |-> -1, month |-> 0, day |-> 0]

\* dt.date(y, m, d) for d = 1: ValueError outside MINYEAR..MAXYEAR and 1..12
date(y, m, d) ==
    IF y >= 1 /\ y <= 9999 /\ m >= 1 /\ m <= 12
    THEN [year |-> y, month |-> m, day |-> d]
    ELSE ValueError

\* dt.date.min
date_min == [year |-> 1, month |-> 1, day |-> 1]

\* a < b and a <= b on dt.date
DateLT(a, b) ==
    \/ a.year < b.year
    \/ a.year = b.year /\ a.month < b.month
    \/ a.year = b.year /\ a.month = b.month /\ a.day < b.day

DateLE(a, b) == a = b \/ DateLT(a, b)

-----------------------------------------------------------------------------
(* Period arithmetic *)

\* MONTH_RE.match(s): ^(\d{4})M(\d{2})$, where $ also matches just before a
\* newline that ends the string
MONTH_RE_match(s) ==
    /\ \/ Len(s) = 7
       \/ Len(s) = 8 /\ s[8] = "\n"
    /\ \A i \in {1, 2, 3, 4, 6, 7} : IsDigit(s[i])
    /\ s[5] = "M"

parse_month(s) ==
    IF ~MONTH_RE_match(s) THEN ValueError
    ELSE date(int(SubSeq(s, 1, 4)), int(SubSeq(s, 6, 7)), 1)

month_to_str(d) == str(d.year) \o <<"M">> \o Format02d(d.month)

add_months(d, n) ==
    date(d.year + ((d.month - 1 + n) \div 12), ((d.month - 1 + n) % 12) + 1, 1)

-----------------------------------------------------------------------------
(* Configuration *)

Str0581 == <<"0", "5", "8", "1">>

Str0680 == <<"0", "6", "8", "0">>

Norrkoping == <<"N", "o", "r", "r", "k", "o", "p", "i", "n", "g">>

Jonkoping == <<"J", "o", "n", "k", "o", "p", "i", "n", "g">>

REGION_CODES == <<Str0581, Str0680>>

\* REGION_NAMES.get(rc, rc)
REGION_NAMES_get(rc) ==
    IF rc = Str0581 THEN Norrkoping
    ELSE IF rc = Str0680 THEN Jonkoping
    ELSE rc

\* set(REGION_NAMES.values())
REGION_NAMES_values == {Norrkoping, Jonkoping}

Row(region, month, population) ==
    [region |-> region, month |-> month, population |-> population]

-----------------------------------------------------------------------------
(* Dataset reader *)

\* the keys of regions_by_month, in insertion order
RECURSIVE MonthKeys(_, _, _)
MonthKeys(rs, i, keys) ==
    IF i > Len(rs) THEN keys
    ELSE IF \E k \in 1..Len(keys) : keys[k] = rs[i].month
         THEN MonthKeys(rs, i + 1, keys)
         ELSE MonthKeys(rs, i + 1, Append(keys, rs[i].month))

\* regions_by_month[month_str]
regions_by_month(rs, month_str) ==
    {rs[i].region : i \in {j \in 1..Len(rs) : rs[j].month = month_str}}

\* the loop of find_latest_complete_month over regions_by_month.items()
RECURSIVE LatestLoop(_, _, _, _, _)
LatestLoop(rs, all_region_names, keys, k, latest_complete) ==
    IF k > Len(keys) THEN latest_complete
    ELSE LET d == parse_month(keys[k])
             take == /\ regions_by_month(rs, keys[k]) = all_region_names
                     /\ d # ValueError
                     /\ (latest_complete = None \/ DateLT(latest_complete, d))
         IN LatestLoop(rs, all_region_names, keys, k + 1,
                       IF take THEN d ELSE latest_complete)

\* mutant: a month counts as complete when its regions are among the tracked
\* ones, "<=" for "=="
find_latest_complete_month_Subset(rs, all_region_names) ==
    LET ds == {parse_month(rs[i].month) :
                 i \in {j \in 1..Len(rs) :
                          /\ regions_by_month(rs, rs[j].month) \subseteq all_region_names
                          /\ parse_month(rs[j].month) # ValueError}}
    IN IF ds = {} THEN None ELSE CHOOSE d \in ds : \A e \in ds : DateLE(e, d)

find_latest_complete_month(rs, all_region_names) ==
    LatestLoop(rs, all_region_names, MonthKeys(rs, 1, <<>>), 1, None)

\* the list comprehension of read_existing
Filter(rs, latest_str) ==
    LET keep == {i \in 1..Len(rs) : StrLE(rs[i].month, latest_str)}
        RECURSIVE Take(_)
        Take(i) ==
            IF i > Len(rs) THEN <<>>
            ELSE IF i \in keep THEN <<rs[i]>> \o Take(i + 1) ELSE Take(i + 1)
    IN Take(1)

SeenOf(rs) == {<<rs[i].region, rs[i].month>> : i \in 1..Len(rs)}

read_existing(f) ==
    IF f.state # "json"
    THEN [rows |-> <<>>, seen |-> {}, latest |-> None]
    ELSE LET l == find_latest_complete_month(f.rows, REGION_NAMES_values)
             kept == IF l # None THEN Filter(f.rows, month_to_str(l)) ELSE f.rows
         IN [rows |-> kept, seen |-> SeenOf(kept), latest |-> l]

-----------------------------------------------------------------------------
(* Fetch orchestrator and text-table parser *)

RECURSIVE MonthsLoop(_, _)
MonthsLoop(cur, end_inclusive) ==
    IF DateLE(cur, end_inclusive)
    THEN <<month_to_str(cur)>> \o MonthsLoop(add_months(cur, 1), end_inclusive)
    ELSE <<>>

\* mutant: the range starts at start_exclusive itself
months_between_Inclusive(start_exclusive, end_inclusive) ==
    MonthsLoop(IF start_exclusive # None THEN start_exclusive ELSE end_inclusive,
               end_inclusive)

months_between(start_exclusive, end_inclusive) ==
    MonthsLoop(IF start_exclusive # None THEN add_months(start_exclusive, 1)
               ELSE end_inclusive,
               end_inclusive)

\* mutant: every 4xx status is answered with an empty list
IsNotYetAvailable_Any4xx(status_code) == status_code >= 400 /\ status_code < 500

\* except requests.exceptions.HTTPError: the statuses answered with an empty list
IsNotYetAvailable(status_code) == status_code = 400

\* the inner loop "for mo in months", left by break when numbers is used up
RECURSIVE InnerLoop(_, _, _, _, _, _)
InnerLoop(rc, ms, mi, numbers, idx, acc) ==
    IF mi > Len(ms) \/ idx >= Len(numbers) THEN [idx |-> idx, rows |-> acc]
    ELSE InnerLoop(rc, ms, mi + 1, numbers, idx + 1,
                   Append(acc, Row(REGION_NAMES_get(rc), ms[mi], numbers[idx + 1])))

\* the outer loop "for rc in reg_codes"
RECURSIVE OuterLoop(_, _, _, _, _, _)
OuterLoop(reg_codes, ri, ms, numbers, idx, acc) ==
    IF ri > Len(reg_codes) THEN acc
    ELSE LET r == InnerLoop(reg_codes[ri], ms, 1, numbers, idx, acc)
         IN OuterLoop(reg_codes, ri + 1, ms, numbers, r.idx, r.rows)

\* mutant: the loops the other way round, months outside and regions inside
DecodeRows_MonthMajor(reg_codes, ms, numbers) ==
    LET total == Len(reg_codes) * Len(ms)
        n == IF Len(numbers) <= total THEN Len(numbers) ELSE total
    IN [k \in 1..n |->
          Row(REGION_NAMES_get(reg_codes[((k - 1) % Len(reg_codes)) + 1]),
              ms[((k - 1) \div Len(reg_codes)) + 1], numbers[k])]

\* the row decoding of fetch_scb
DecodeRows(reg_codes, ms, numbers) == OuterLoop(reg_codes, 1, ms, numbers, 0, <<>>)

\* fetch_scb(months) when the API answers resp:
\*   resp.status                 the HTTP status
\*   resp.has_codes, resp.codes  the CODES("region") marker and its codes
\*   resp.has_data, resp.numbers the DATA block and its integers
fetch_scb(ms, resp) ==
    IF ms = <<>> THEN [raised |-> "", rows |-> <<>>, requested |-> FALSE]
    ELSE IF resp.status >= 400
    THEN IF IsNotYetAvailable(resp.status)
         THEN [raised |-> "", rows |-> <<>>, requested |-> TRUE]
         ELSE [raised |-> "HTTPError", rows |-> <<>>, requested |-> TRUE]
    ELSE IF ~resp.has_data
    THEN [raised |-> "RuntimeError", rows |-> <<>>, requested |-> TRUE]
    ELSE [raised |-> "",
          rows |-> DecodeRows(IF resp.has_codes THEN resp.codes ELSE REGION_CODES,
                              ms, resp.numbers),
          requested |-> TRUE]

-----------------------------------------------------------------------------
(* Merge and persist *)

\* the loop "for r in new_rows" of main
RECURSIVE MergeLoop(_, _, _)
MergeLoop(nr, i, st) ==
    IF i > Len(nr) THEN st
    ELSE LET key == <<nr[i].region, nr[i].month>>
         IN IF key \in st.seen THEN MergeLoop(nr, i + 1, st)
            ELSE MergeLoop(nr, i + 1,
                           [rows |-> Append(st.rows, nr[i]),
                            seen |-> st.seen \cup {key},
                            added |-> st.added + 1])

\* sort_key(r); d is ValueError when parse_month raises
sort_key(r) ==
    [d |-> IF MONTH_RE_match(r.month) THEN parse_month(r.month) ELSE date_min,
     region |-> r.region]

\* a < b on the tuples sort_key returns
KeyLT(a, b) == DateLT(a.d, b.d) \/ (a.d = b.d /\ StrLT(a.region, b.region))

\* list.sort computes every key once, then sorts stably: an index goes behind
\* the indices whose key is not greater
SortedInsert(key, s, i) ==
    LET after == {p \in 1..Len(s) : KeyLT(key[i], key[s[p]])}
        p == IF after = {} THEN Len(s) + 1
             ELSE CHOOSE q \in after : \A j \in after : q <= j
    IN SubSeq(s, 1, p - 1) \o <<i>> \o SubSeq(s, p, Len(s))

RECURSIVE SortLoop(_, _, _, _)
SortLoop(key, n, i, acc) ==
    IF i > n THEN acc ELSE SortLoop(key, n, i + 1, SortedInsert(key, acc, i))

\* mutant: the list is written in the order of the merge
sort_Skipped(rs) == rs

\* rows.sort(key=sort_key), when no key raises
sort(rs) ==
    LET key == [i \in 1..Len(rs) |-> sort_key(rs[i])]
        perm == SortLoop(key, Len(rs), 1, <<>>)
    IN [i \in 1..Len(rs) |-> rs[perm[i]]]

SortRaises(rs) == \E i \in 1..Len(rs) : sort_key(rs[i]).d = ValueError

-----------------------------------------------------------------------------
(* The run: main, one action per stage *)

\* dt.date.today(): the days a run may happen on
Todays ==
    {[year |-> 2025, month |-> 1, day |-> 15],
     [year |-> 2025, month |-> 2, day |-> 1],
     [year |-> 2025, month |-> 3, day |-> 31]}

\* main up to the decision to fetch: read_existing, the target end month,
\* the two early returns and months_between
MainRead ==
    /\ pc \in {"start", "exited"}
    /\ LET r == read_existing(file)
       IN \E t \in Todays :
            LET first_of_this == date(t.year, t.month, 1)
                e == add_months(first_of_this, -1)
                fetch == r.latest # None /\ ~DateLE(e, r.latest)
            IN /\ today' = t
               /\ file0' = file
               /\ rows' = r.rows
               /\ seen' = r.seen
               /\ latest' = r.latest
               /\ end' = e
               /\ months' = IF fetch THEN months_between(r.latest, e) ELSE <<>>
               /\ pc' = IF fetch THEN "fetch" ELSE "exited"
               /\ exit_code' = IF fetch THEN -1 ELSE 0
    /\ new_rows' = <<>>
    /\ added' = 0
    /\ status' = 0
    /\ requests' = <<>>
    /\ writes' = 0
    /\ UNCHANGED <<file, arg, ret>>

\* new_rows = fetch_scb(months), the API answering resp
MainFetch(resp) ==
    /\ pc = "fetch"
    /\ LET r == fetch_scb(months, resp)
       IN /\ requests' = IF r.requested THEN Append(requests, months) ELSE requests
          /\ status' = IF r.requested THEN resp.status ELSE status
          /\ new_rows' = r.rows
          /\ pc' = IF r.raised = "" THEN "merge" ELSE "exited"
          /\ exit_code' = IF r.raised = "" THEN exit_code ELSE 1
    /\ UNCHANGED <<file, today, rows, seen, latest, end, months, added, writes,
                   file0, arg, ret>>

\* the merge loop, the return when nothing was added, the sort and the write
MainMerge ==
    /\ pc = "merge"
    /\ LET st == MergeLoop(new_rows, 1, [rows |-> rows, seen |-> seen, added |-> 0])
       IN /\ seen' = st.seen
          /\ added' = st.added
          /\ pc' = "exited"
          /\ IF st.added = 0
             THEN /\ rows' = st.rows
                  /\ exit_code' = 0
                  /\ UNCHANGED <<file, writes>>
             ELSE IF SortRaises(st.rows)
             THEN /\ rows' = st.rows
                  /\ exit_code' = 1
                  /\ UNCHANGED <<file, writes>>
             ELSE /\ rows' = sort(st.rows)
                  /\ file' = [state |-> "json", rows |-> rows']
                  /\ writes' = writes + 1
                  /\ exit_code' = 0
    /\ UNCHANGED <<today, latest, end, months, new_rows, status, requests,
                   file0, arg, ret>>

-----------------------------------------------------------------------------
(* Bounds and input sets of the run *)

MaxRows == 3

MaxValues == 4

Str0180 == <<"0", "1", "8", "0">>

Tok(y, m) == str(y) \o <<"M">> \o Format02d(m)

TokShort == <<"2", "0", "2", "4">>

TokMonth00 == <<"2", "0", "2", "4", "M", "0", "0">>

TokMonth13 == <<"2", "0", "2", "5", "M", "1", "3">>

TokNewline == <<"2", "0", "2", "5", "M", "0", "1", "\n">>

TokYear999 == <<"0", "9", "9", "9", "M", "1", "2">>

\* month tokens of the stored rows of a run: three months around a change of
\* year, a token MONTH_RE rejects, two it accepts for a month that is no
\* month (one sorting before, one after the months), and one that ends with a
\* newline
StoredTokens ==
    {Tok(2024, 12), Tok(2025, 1), Tok(2025, 2), TokShort, TokMonth00,
     TokMonth13, TokNewline}

\* the populations of the stored rows and of the fetched values
Populations == [stored |-> 100, fetched |-> 200]

StoredPopulation == Populations.stored

FetchedPopulation == Populations.fetched

StoredRows ==
    {Row(g, t, StoredPopulation) : g \in REGION_NAMES_values, t \in StoredTokens}

\* sorted by (decoded month, region): a token that is no month counts as the
\* earliest date
DecodedKey(r) ==
    [d |-> IF parse_month(r.month) # ValueError THEN parse_month(r.month)
           ELSE date_min,
     region |-> r.region]

IsSorted(rs) ==
    \A i \in 1..(Len(rs) - 1) : ~KeyLT(DecodedKey(rs[i + 1]), DecodedKey(rs[i]))

NoDuplicates(rs) ==
    \A i, j \in 1..Len(rs) :
        (rs[i].region = rs[j].region /\ rs[i].month = rs[j].month) => i = j

SeqsUpTo(S, n) == UNION {[1..k -> S] : k \in 0..n}

InitialFiles ==
    {[state |-> "missing", rows |-> <<>>], [state |-> "empty", rows |-> <<>>]}
    \cup {[state |-> "json", rows |-> rs] :
            rs \in {s \in SeqsUpTo(StoredRows, MaxRows) :
                        IsSorted(s) /\ NoDuplicates(s)}}

\* the region codes of the CODES("region") marker: the request's order, the
\* reverse, one code, a code twice, and an unrecognised code in each place
CodeLists ==
    {<<Str0581, Str0680>>, <<Str0680, Str0581>>, <<Str0680>>,
     <<Str0581, Str0581, Str0680>>, <<Str0180, Str0581, Str0680>>,
     <<Str0581, Str0180, Str0680>>, <<Str0581, Str0680, Str0180>>}

ErrorResponses ==
    {[status |-> c, has_codes |-> FALSE, codes |-> <<>>,
      has_data |-> FALSE, numbers |-> <<>>] : c \in {400, 404, 500}}

OkResponses ==
    {[status |-> 200, has_codes |-> FALSE, codes |-> <<>>,
      has_data |-> FALSE, numbers |-> <<>>]}
    \cup {[status |-> 200, has_codes |-> hc, codes |-> cs,
           has_data |-> TRUE, numbers |-> [i \in 1..n |-> FetchedPopulation]] :
            hc \in {TRUE}, cs \in CodeLists,
            n \in 0..MaxValues}
    \cup {[status |-> 200, has_codes |-> FALSE, codes |-> <<>>,
           has_data |-> TRUE, numbers |-> [i \in 1..n |-> FetchedPopulation]] :
            n \in 0..MaxValues}

Responses == ErrorResponses \cup OkResponses

Init ==
    /\ file \in InitialFiles
    /\ pc = "start"
    /\ today = None
    /\ rows = <<>>
    /\ seen = {}
    /\ latest = None
    /\ end = None
    /\ months = <<>>
    /\ new_rows = <<>>
    /\ added = 0
    /\ status = 0
    /\ exit_code = -1
    /\ requests = <<>>
    /\ writes = 0
    /\ file0 = file
    /\ arg = <<>>
    /\ ret = <<>>

Next ==
    \/ MainRead
    \/ \E resp \in Responses : MainFetch(resp)
    \/ MainMerge

Spec == Init /\ [][Next]_vars

-----------------------------------------------------------------------------
(* Claims about the run *)

Exited == pc = "exited"

InFile(f, r) == \E i \in 1..Len(f.rows) : f.rows[i] = r

PosIn(rs, r) == CHOOSE k \in 1..Len(rs) : rs[k] = r

\* C1: after any sequence of runs the persisted file is sorted ascending by
\* (decoded month, region name) and holds no two observations with the same
\* (region, month) pair.
C1_SortedNoDuplicates ==
    file.state = "json" => IsSorted(file.rows) /\ NoDuplicates(file.rows)

\* a later run wrote the file, and the sort moved a fetched row in front of a
\* row fetched before it
C1_Witness ==
    /\ Exited /\ writes = 1
    /\ \E k \in 1..Len(file0.rows) : file0.rows[k].population = FetchedPopulation
    /\ \E i, j \in 1..Len(new_rows) :
          /\ i < j
          /\ InFile(file, new_rows[i]) /\ InFile(file, new_rows[j])
          /\ PosIn(file.rows, new_rows[j]) < PosIn(file.rows, new_rows[i])

\* C5 as stated: every 400-class status ends the run with exit 0, zero rows
\* and the file unchanged; every other unsuccessful status is fatal, the file
\* unchanged.
C5_Claim400Class ==
    (Exited /\ Len(requests) = 1 /\ status >= 400) =>
        /\ file = file0
        /\ IF status < 500
           THEN exit_code = 0 /\ new_rows = <<>> /\ added = 0
           ELSE exit_code = 1

\* C5 amended: status 400 ends the run with exit 0, zero rows and the file
\* unchanged; every other unsuccessful status, 4xx included, is fatal, the
\* file unchanged.
C5_Only400 ==
    (Exited /\ Len(requests) = 1 /\ status >= 400) =>
        /\ file = file0
        /\ writes = 0
        /\ IF status = 400
           THEN exit_code = 0 /\ new_rows = <<>> /\ added = 0
           ELSE exit_code = 1

C5_Witness ==
    Exited /\ Len(requests) = 1 /\ status = 400 /\ exit_code = 0 /\ file = file0

\* the no-op outcomes of a run
FileAbsent == file0.state # "json"

NothingToFetch == latest = None \/ DateLE(end, latest)

EmptyFetch == Len(requests) = 1 /\ status < 300 /\ exit_code # 1 /\ new_rows = <<>>

AllAlreadySeen ==
    /\ Len(requests) = 1 /\ status < 300 /\ new_rows # <<>>
    /\ \A i \in 1..Len(new_rows) :
          <<new_rows[i].region, new_rows[i].month>> \in SeenOf(read_existing(file0).rows)

\* C6: a run writes the file exactly once if it added a row and not at all
\* otherwise; each no-op outcome exits 0 with nothing added and the file as
\* it was.
C6_WrittenIffAdded ==
    Exited =>
        /\ writes = (IF added >= 1 THEN 1 ELSE 0)
        /\ (writes = 0 => file = file0)
        /\ (FileAbsent \/ NothingToFetch \/ EmptyFetch \/ AllAlreadySeen) =>
              (exit_code = 0 /\ added = 0 /\ file = file0)

\* the months from 0001M01, counted
MonthIndex(d) == (d.year * 12) + (d.month - 1)

TokenOfIndex(k) == Tok(k \div 12, (k % 12) + 1)

\* C7: no request when the reader yields no latest complete month or it is at
\* or after the last fully elapsed month; otherwise one request, for every
\* month after the latest complete one up to the last fully elapsed one, in
\* ascending order, and never for the month of today.
C7_OneRequestForTheGap ==
    pc \in {"merge", "exited"} =>
        LET last == MonthIndex(today) - 1
        IN IF latest = None \/ MonthIndex(latest) >= last
           THEN requests = <<>>
           ELSE /\ Len(requests) = 1
                /\ Len(requests[1]) = last - MonthIndex(latest)
                /\ \A i \in 1..Len(requests[1]) :
                      /\ requests[1][i] = TokenOfIndex(MonthIndex(latest) + i)
                      /\ requests[1][i] # TokenOfIndex(MonthIndex(today))

\* a request for two months, the first in the year after the latest complete
\* month
C7_Witness ==
    /\ Exited /\ Len(requests) = 1
    /\ requests[1] = <<Tok(2025, 1), Tok(2025, 2)>>
    /\ latest = date(2024, 12, 1)

LatestOfFile(f) ==
    IF f.state = "json" THEN find_latest_complete_month(f.rows, REGION_NAMES_values)
    ELSE None

\* C10: over a run the latest complete month of the file never decreases, and
\* every observation at or before the latest complete month the run started
\* with is still in the file, with its population.
C10_LatestNeverDecreases ==
    Exited =>
        LET l0 == LatestOfFile(file0)
            l1 == LatestOfFile(file)
        IN l0 # None =>
              /\ l1 # None /\ DateLE(l0, l1)
              /\ \A i \in 1..Len(file0.rows) :
                    (parse_month(file0.rows[i].month) # ValueError
                     /\ DateLE(parse_month(file0.rows[i].month), l0))
                        => InFile(file, file0.rows[i])

\* the completeness invariant of a list of observations, l its latest
\* complete month: a month at or before l that is present is present for
\* every tracked region
Complete(rs, l) ==
    l # None =>
        \A i \in 1..Len(rs) :
            (parse_month(rs[i].month) # ValueError
             /\ DateLE(parse_month(rs[i].month), l))
                => \A g \in REGION_NAMES_values :
                      \E j \in 1..Len(rs) :
                          rs[j].region = g /\ rs[j].month = rs[i].month

\* C3 as stated: the list read_existing returns satisfies the completeness
\* invariant, whatever the stored dataset.
C3_ReadIsComplete ==
    pc \in {"fetch", "merge"} => Complete(rows, latest)

Greatest(D) == IF D = {} THEN None ELSE CHOOSE d \in D : \A e \in D : DateLE(e, d)

\* the greatest month of rs that every tracked region, and no other, has
GreatestCompleteMonth(rs) ==
    Greatest({parse_month(rs[i].month) :
                i \in {j \in 1..Len(rs) :
                         /\ parse_month(rs[j].month) # ValueError
                         /\ {rs[k].region : k \in {n \in 1..Len(rs) :
                                                     rs[n].month = rs[j].month}}
                            = REGION_NAMES_values}})

\* C3 amended: the list read_existing returns satisfies the completeness
\* invariant for every stored dataset that satisfies it; an incomplete month
\* before the latest complete month is returned as it is stored.
C3_CompleteIfStoredComplete ==
    pc \in {"fetch", "merge"} =>
        (Complete(file0.rows, GreatestCompleteMonth(file0.rows))
            => Complete(rows, latest))

\* a complete stored dataset with a partial month behind its latest complete
\* month, which the load dropped
C3_Witness ==
    /\ pc = "fetch"
    /\ Complete(file0.rows, GreatestCompleteMonth(file0.rows))
    /\ Len(rows) < Len(file0.rows)
    /\ \E i \in 1..Len(file0.rows) :
          /\ file0.rows[i].month = Tok(2025, 1)
          /\ latest = date(2024, 12, 1)

-----------------------------------------------------------------------------
(* Function-level specifications: the argument is drawn in the initial      *)
(* state and one action applies the function.                               *)

RunIdle ==
    /\ file = [state |-> "missing", rows |-> <<>>]
    /\ today = None
    /\ rows = <<>>
    /\ seen = {}
    /\ latest = None
    /\ end = None
    /\ months = <<>>
    /\ new_rows = <<>>
    /\ added = 0
    /\ status = 0
    /\ exit_code = -1
    /\ requests = <<>>
    /\ writes = 0
    /\ file0 = file

Call(result) ==
    /\ pc = "call"
    /\ pc' = "return"
    /\ ret' = result
    /\ UNCHANGED <<arg, run_vars>>

Returned == pc = "return"

(* parse_month and month_to_str *)

YearDigits == {"0", "1", "2", "9"}

\* seven characters, or eight with a newline at the end: year digits, a
\* separator, two month digits
MonthTokenInputs ==
    {<<a, b, c, d, sep, e, f>> \o tail :
        a \in {"0", "2"}, b \in {"0", "9"}, c \in YearDigits, d \in YearDigits,
        sep \in {"M", "-"}, e \in {"0", "1"}, f \in {"0", "1", "2", "3"},
        tail \in {<<>>, <<"\n">>}}
    \cup {<<>>, TokShort}

CallParseMonth ==
    Call(LET d == parse_month(arg)
         IN [date |-> d,
             str |-> IF d # ValueError THEN month_to_str(d) ELSE <<>>])

InitMonth == RunIdle /\ pc = "call" /\ arg \in MonthTokenInputs /\ ret = <<>>

SpecMonth == InitMonth /\ [][CallParseMonth]_vars

\* a valid month token: four digits, "M", and two digits from 01 to 12
ValidMonthToken(t) ==
    /\ Len(t) = 7
    /\ \A i \in {1, 2, 3, 4} : IsDigit(t[i])
    /\ t[5] = "M"
    /\ \/ t[6] = "0" /\ IsDigit(t[7]) /\ t[7] # "0"
       \/ t[6] = "1" /\ t[7] \in {"0", "1", "2"}

\* C8: month_to_str(parse_month(t)) = t for every valid month token t, and
\* parse_month fails on every token that does not match the pattern.
C8_RoundTrip ==
    Returned =>
        IF ValidMonthToken(arg)
        THEN ret.date # ValueError /\ ret.str = arg
        ELSE ret.date = ValueError

(* the row decoding of fetch_scb *)

MaxCodes == 2

MaxMonths == 2

CodeSet == {Str0581, Str0680, Str0180}

MonthSet == {Tok(2024, 12), Tok(2025, 1), Tok(2025, 2)}

ValueSet == {FetchedPopulation, -1}

CallDecodeRows == Call(DecodeRows(arg.codes, arg.months, arg.numbers))

InitFetch ==
    /\ RunIdle /\ pc = "call" /\ ret = <<>>
    /\ arg \in [codes : SeqsUpTo(CodeSet, MaxCodes),
                months : SeqsUpTo(MonthSet, MaxMonths),
                numbers : SeqsUpTo(ValueSet, MaxValues)]

SpecFetch == InitFetch /\ [][CallDecodeRows]_vars

Min(a, b) == IF a <= b THEN a ELSE b

\* C4: for region codes R, months M and integers V the decoding emits the
\* first min(len(V), len(R) * len(M)) entries of the region-major
\* enumeration: row k has the region of R[k div len(M)], month M[k mod len(M)]
\* and population V[k].
C4_RegionMajorPrefix ==
    Returned =>
        LET R == arg.codes
            M == arg.months
            V == arg.numbers
            n == Min(Len(V), Len(R) * Len(M))
        IN /\ Len(ret) = n
           /\ \A k \in 0..(n - 1) :
                 ret[k + 1] = Row(REGION_NAMES_get(R[(k \div Len(M)) + 1]),
                                  M[(k % Len(M)) + 1], V[k + 1])

\* two codes, one unrecognised, two months, and a value short: three rows
C4_Witness ==
    /\ Returned
    /\ arg.codes = <<Str0680, Str0180>>
    /\ Len(arg.months) = 2 /\ arg.months[1] # arg.months[2]
    /\ arg.numbers = <<FetchedPopulation, -1, FetchedPopulation>>
    /\ Len(ret) = 3
    /\ ret[3].region = Str0180 /\ ret[2].region = Jonkoping

(* read_existing *)

MaxStored == 5

ReadRegions == <<Norrkoping, Jonkoping, Str0180>>

ReadTokens ==
    <<Tok(2025, 2), Tok(2024, 12), Tok(2025, 1), TokMonth13, TokYear999, TokShort>>

\* the rows a stored dataset is made of, in no sorted order
ReadUniverse ==
    [i \in 1..(Len(ReadRegions) * Len(ReadTokens)) |->
        Row(ReadRegions[((i - 1) \div Len(ReadTokens)) + 1],
            ReadTokens[((i - 1) % Len(ReadTokens)) + 1], StoredPopulation)]

RECURSIVE Pick(_, _)
Pick(S, i) ==
    IF i > Len(ReadUniverse) THEN <<>>
    ELSE IF i \in S THEN <<ReadUniverse[i]>> \o Pick(S, i + 1)
    ELSE Pick(S, i + 1)

StoredDatasets ==
    {Pick(S, 1) : S \in {T \in SUBSET (1..Len(ReadUniverse)) :
                            Cardinality(T) <= MaxStored}}

CallReadExisting == Call(read_existing([state |-> "json", rows |-> arg]))

InitRead == RunIdle /\ pc = "call" /\ arg \in StoredDatasets /\ ret = <<>>

SpecRead == InitRead /\ [][CallReadExisting]_vars

\* the month a valid token stands for
DecodeToken(t) == [year |-> int(SubSeq(t, 1, 4)), month |-> int(SubSeq(t, 6, 7)), day |-> 1]

RegionsOf(rs, t) == {rs[i].region : i \in {j \in 1..Len(rs) : rs[j].month = t}}

CompleteMonths(rs) ==
    {DecodeToken(rs[i].month) :
        i \in {j \in 1..Len(rs) :
                 /\ ValidMonthToken(rs[j].month)
                 /\ RegionsOf(rs, rs[j].month) = REGION_NAMES_values}}

\* C2: find_latest_complete_month returns the greatest month whose regions
\* are exactly the tracked regions (none if there is none), and read_existing
\* returns no observation of a later month.
C2_LatestCompleteAndTruncated ==
    Returned =>
        /\ ret.latest = Greatest(CompleteMonths(arg))
        /\ ret.latest # None =>
              \A i \in 1..Len(ret.rows) :
                  ValidMonthToken(ret.rows[i].month)
                      => DateLE(DecodeToken(ret.rows[i].month), ret.latest)


\* C9: read_existing drops exactly the observations whose decoded month is
\* later than the latest complete month; an observation whose token is no
\* valid month is kept, and is still in the file after a run that rewrites it.
C9_DropsExactlyLaterMonths ==
    /\ pc \in {"fetch", "merge"} =>
          \A i \in 1..Len(file0.rows) :
              (\E j \in 1..Len(rows) : rows[j] = file0.rows[i])
              <=> ~(/\ latest # None
                    /\ ValidMonthToken(file0.rows[i].month)
                    /\ DateLT(latest, DecodeToken(file0.rows[i].month)))
    /\ (Exited /\ writes = 1) =>
          \A i \in 1..Len(file0.rows) :
              ~ValidMonthToken(file0.rows[i].month) => InFile(file, file0.rows[i])

====
